---- MODULE Spec2Model ----
(***************************************************************************)
(* A model of the package github.com/bzon/errors.                          *)
(*                                                                         *)
(* The heap holds every error value that has been allocated; an error is   *)
(* referred to by its index in the heap, and NIL is the nil error.  A      *)
(* string is a sequence of one-character strings, so that concatenation    *)
(* and formatting are computed and not assumed.  A call stack is a         *)
(* sequence of frames, innermost first.                                    *)
(*                                                                         *)
(* Spec        is the package as it is in its current source (Go 1.13      *)
(*             wrapping, fmt.Errorf with %w, build stamps, Is and As).     *)
(* SpecLegacy  is the package as it is in errors.go (github.com/pkg/errors *)
(*             underneath, Cause).                                         *)
(* SpecThreads is the current source called by several threads at once,    *)
(*             each call taken one statement at a time.                    *)
(***************************************************************************)
EXTENDS Integers, Sequences, FiniteSets, TLC

VARIABLES
    heap,       \* the allocated error values, by address (index)
    spans,      \* per OpenCensus span: the calls received, in order
    last,       \* the most recent call of the package: its inputs and its result
    hist,       \* one entry per constructor call, in order (what was asked for)
    nops,       \* the number of operations made so far
    threads,    \* per thread: where it is in the call it is making, and its locals
    VERSION,    \* build stamp, written by the linker before the program starts
    COMMIT,     \* build stamp
    BRANCH      \* build stamp

vars == <<heap, spans, last, hist, nops, threads, VERSION, COMMIT, BRANCH>>

----------------------------------------------------------------------------
(* Bounds of the model *)

\* the heap holds at most MaxHeap error values
MaxHeap == 4
\* the depth handed to an explicit-depth constructor or setter is in 0..MaxDepth
MaxDepth == 3
\* at most MaxOps operations are made in one behaviour
MaxOps == 2

NIL == 0

----------------------------------------------------------------------------
(* Strings *)

Msgs == { <<"a">>, <<"b">> }

\* the format strings and argument lists handed to the formatting constructors
FormatCalls ==
    { [f |-> <<"t", " ", "%", "s">>, args |-> << <<"b">> >>] }

RECURSIVE extraArgs(_)
\* fmt: the arguments left over, as "string=a, string=b"
extraArgs(a) ==
    IF a = <<>> THEN <<>>
    ELSE <<"s","t","r","i","n","g","=">> \o Head(a)
         \o (IF Tail(a) = <<>> THEN <<>> ELSE <<",", " ">> \o extraArgs(Tail(a)))

RECURSIVE doPrintf(_, _, _)
\* fmt.(*pp).doPrintf over %s, %v, %% and string arguments: a verb that has no
\* argument renders %!v(MISSING), a verb that does not fit a string renders
\* %!v(string=arg), a lone % at the end renders %!(NOVERB), and arguments left
\* over render %!(EXTRA string=arg, ...).
doPrintf(format, i, a) ==
    IF i > Len(format)
    THEN IF a = <<>> THEN <<>>
         ELSE <<"%","!","(","E","X","T","R","A"," ">> \o extraArgs(a) \o <<")">>
    ELSE IF format[i] # "%"
    THEN <<format[i]>> \o doPrintf(format, i + 1, a)
    ELSE IF i = Len(format)
    THEN <<"%","!","(","N","O","V","E","R","B",")">> \o doPrintf(format, i + 1, a)
    ELSE LET c == format[i + 1] IN
         IF c = "%" THEN <<"%">> \o doPrintf(format, i + 2, a)
         ELSE IF a = <<>>
         THEN <<"%","!",c,"(","M","I","S","S","I","N","G",")">>
              \o doPrintf(format, i + 2, a)
         ELSE IF c \in {"s", "v"}
         THEN Head(a) \o doPrintf(format, i + 2, Tail(a))
         ELSE <<"%","!",c,"(","s","t","r","i","n","g","=">> \o Head(a) \o <<")">>
              \o doPrintf(format, i + 2, Tail(a))

Sprintf(format, a) == doPrintf(format, 1, a)

HexDigits == <<"0","1","2","3","4","5","6","7","8","9","a","b","c","d","e","f">>

RECURSIVE HexString(_)
\* trace.TraceID.String and trace.SpanID.String: two lower-case hex digits a byte
HexString(bytes) ==
    IF bytes = <<>> THEN <<>>
    ELSE <<HexDigits[(Head(bytes) \div 16) + 1], HexDigits[(Head(bytes) % 16) + 1]>>
         \o HexString(Tail(bytes))

----------------------------------------------------------------------------
(* Call stacks and source locations *)

wrappedFunctionCallDepth == 2

UserF == [function |-> "github.com/bzon/errors_test.F", file |-> "errors_test.go", line |-> 11]
UserG == [function |-> "github.com/bzon/errors_test.G", file |-> "errors_test.go", line |-> 22]

\* the stack of the package's caller: F, called by G
Stacks == { <<UserF, UserG>> }

\* the line, in each function of the package, of its call of NewSourceLocation
\* (for NewSourceLocation: of its call of runtime.Caller)
CallLine ==
    [ NewSourceLocation |-> 58, SetSourceLocation |-> 105,
      NewCaller |-> 123, NewCallerT |-> 132, NewCallerf |-> 141, NewCallerfT |-> 150,
      WrapCaller |-> 159, WrapCallerT |-> 168, WrapCallerf |-> 178, WrapCallerfT |-> 188,
      New |-> 197, NewT |-> 206, Errorf |-> 215, ErrorfT |-> 224,
      Wrap |-> 233, WrapT |-> 242, Wrapf |-> 252, WrapfT |-> 262 ]

FuncName(fn) ==
    IF fn = "SetSourceLocation"
    THEN "github.com/bzon/errors.(*errorContext).SetSourceLocation"
    ELSE "github.com/bzon/errors." \o fn

\* the frame of a function of the package while it calls NewSourceLocation
PkgFrame(fn) == [function |-> FuncName(fn), file |-> "errors.go", line |-> CallLine[fn]]

\* the stack on which NewSourceLocation runs when fn, called on stack st, calls it
Callers(fn, st) == <<PkgFrame(fn)>> \o st

\* RuntimeCaller with skip counted from 1 instead of 0
RuntimeCaller_fromOne(frames, skip) ==
    IF skip \in 1..Len(frames)
    THEN frames[skip]
    ELSE [function |-> "", file |-> "", line |-> 0]

\* runtime.Caller(skip) followed by runtime.FuncForPC(pc).Name(), evaluated in the
\* function whose frame is frames[1]: skip 0 is that function itself; past the
\* end of the stack pc is 0, FuncForPC gives nil and Name() of nil is "".
RuntimeCaller(frames, skip) ==
    IF skip + 1 \in 1..Len(frames)
    THEN frames[skip + 1]
    ELSE [function |-> "", file |-> "", line |-> 0]

\* NewSourceLocation that does not count its own frame
NewSourceLocation_noOwnFrame(depth, callers) ==
    LET fr == RuntimeCaller(callers, depth)
    IN  [Function |-> fr.function, File |-> fr.file, Line |-> fr.line,
         Version |-> VERSION, Commit |-> COMMIT, Branch |-> BRANCH]

NewSourceLocation(depth, callers) ==
    LET fr == RuntimeCaller(<<PkgFrame("NewSourceLocation")>> \o callers, depth)
    IN  [Function |-> fr.function, File |-> fr.file, Line |-> fr.line,
         Version |-> VERSION, Commit |-> COMMIT, Branch |-> BRANCH]

----------------------------------------------------------------------------
(* Spans *)

TraceIDLen == 16
SpanIDLen == 8
StatusCodeUnknown == 2

Pad(bytes, n) == bytes \o [i \in 1..(n - Len(bytes)) |-> 0]

SpanIds == {1, 2}

\* span.SpanContext() of the two spans of the model
SpanContextOf ==
    [s \in SpanIds |->
        IF s = 1
        THEN [TraceID |-> Pad(<<210, 210, 177, 38>>, TraceIDLen),
              SpanID  |-> Pad(<<22, 68, 180>>, SpanIDLen)]
        ELSE [TraceID |-> Pad(<<233, 116, 153>>, TraceIDLen),
              SpanID  |-> Pad(<<30, 185>>, SpanIDLen)]]

\* the span contexts handed to SetTraceContext: the one of ExampleTraceContext,
\* the zero value trace.SpanContext{}, and one with a trace id and no span id
SetterContexts ==
    { [TraceID |-> Pad(<<97, 98, 99>>, TraceIDLen), SpanID |-> Pad(<<100, 101, 102>>, SpanIDLen)],
      [TraceID |-> Pad(<<>>, TraceIDLen), SpanID |-> Pad(<<>>, SpanIDLen)],
      [TraceID |-> Pad(<<97>>, TraceIDLen), SpanID |-> Pad(<<>>, SpanIDLen)] }

EmptyTraceContext == [TraceID |-> <<>>, SpanID |-> <<>>]

----------------------------------------------------------------------------
(* Error values *)

\* errors.New of the standard library
errorsNew(s) == [kind |-> "errorString", s |-> s]

\* fmt.Errorf's result when the format has a %w with a non-nil error operand
wrapError(msg, e) == [kind |-> "wrapError", msg |-> msg, err |-> e]

\* the test suite's own error type
customError(s) == [kind |-> "customError", Err |-> s]

errorContext(err, loc) ==
    [kind |-> "errorContext", err |-> err, sourceLocation |-> loc,
     traceContext |-> EmptyTraceContext]

\* what a nil pointer dereference in Error() gives instead of a message
PANIC == <<"PANIC">>

RECURSIVE Error(_, _)
Error(h, id) ==
    LET o == h[id] IN
    CASE o.kind = "errorContext" -> IF o.err = NIL THEN PANIC ELSE Error(h, o.err)
      [] o.kind = "errorString"  -> o.s
      [] o.kind = "wrapError"    -> o.msg
      [] o.kind = "customError"  -> o.Err
      [] o.kind = "fundamental"  -> o.msg
      [] o.kind = "withMessage"  -> o.msg \o <<":", " ">> \o Error(h, o.cause)
      [] o.kind = "withStack"    -> Error(h, o.err)

\* Unwrap when errorContext has no Unwrap method
Unwrap_noMethod(h, id) ==
    IF id = NIL THEN NIL
    ELSE IF h[id].kind = "wrapError" THEN h[id].err
    ELSE NIL

\* errors.Unwrap(err): the result of err's Unwrap method, nil if it has none
Unwrap(h, id) ==
    IF id = NIL THEN NIL
    ELSE IF h[id].kind \in {"errorContext", "wrapError"} THEN h[id].err
    ELSE NIL

\* fmt.Errorf(format, args...) with string arguments: no operand is an error, so
\* nothing is wrapped and the result is errors.New of the rendered text
fmtErrorf(format, a) == errorsNew(Sprintf(format, a))

\* fmtErrorfWrap with %v in place of %w: the text is the same, nothing is wrapped
fmtErrorfWrap_verbV(h, m, e) ==
    IF e = NIL
    THEN errorsNew(m \o <<":", " ">> \o <<"<","n","i","l",">">>)
    ELSE errorsNew(m \o <<":", " ">> \o Error(h, e))

\* fmtErrorfWrap with the operands in the other order
fmtErrorfWrap_swapped(h, m, e) ==
    IF e = NIL
    THEN errorsNew(<<"%","!","w","(","<","n","i","l",">",")">> \o <<":", " ">> \o m)
    ELSE wrapError(Error(h, e) \o <<":", " ">> \o m, e)

\* fmt.Errorf("%s: %w", m, e): a nil operand of %w renders %!w(<nil>) and wraps
\* nothing
fmtErrorfWrap(h, m, e) ==
    IF e = NIL
    THEN errorsNew(m \o <<":", " ">> \o <<"%","!","w","(","<","n","i","l",">",")">>)
    ELSE wrapError(m \o <<":", " ">> \o Error(h, e), e)

\* annotate that takes the span identifier from the trace identifier
annotate_traceIDTwice(h, e, span, sp) ==
    IF span = NIL
    THEN [heap |-> h, spans |-> sp]
    ELSE LET ctx == SpanContextOf[span]
             h2  == [h EXCEPT ![e].traceContext =
                        [TraceID |-> HexString(ctx.TraceID),
                         SpanID  |-> HexString(ctx.TraceID)]]
             src == h2[e].sourceLocation
             ann == [call |-> "Annotate",
                     attributes |->
                        << [key |-> "function", value |-> src.Function],
                           [key |-> "file",     value |-> src.File],
                           [key |-> "line",     value |-> src.Line],
                           [key |-> "version",  value |-> src.Version],
                           [key |-> "commit",   value |-> src.Commit],
                           [key |-> "branch",   value |-> src.Branch] >>,
                     str |-> <<"E","r","r","o","r",":"," ">> \o Error(h2, e)]
             st  == [call |-> "SetStatus", code |-> StatusCodeUnknown]
         IN  [heap |-> h2, spans |-> [sp EXCEPT ![span] = @ \o <<ann, st>>]]

\* annotate that does not set the status of the span
annotate_noStatus(h, e, span, sp) ==
    IF span = NIL
    THEN [heap |-> h, spans |-> sp]
    ELSE LET ctx == SpanContextOf[span]
             h2  == [h EXCEPT ![e].traceContext =
                        [TraceID |-> HexString(ctx.TraceID),
                         SpanID  |-> HexString(ctx.SpanID)]]
             src == h2[e].sourceLocation
             ann == [call |-> "Annotate",
                     attributes |->
                        << [key |-> "function", value |-> src.Function],
                           [key |-> "file",     value |-> src.File],
                           [key |-> "line",     value |-> src.Line],
                           [key |-> "version",  value |-> src.Version],
                           [key |-> "commit",   value |-> src.Commit],
                           [key |-> "branch",   value |-> src.Branch] >>,
                     str |-> <<"E","r","r","o","r",":"," ">> \o Error(h2, e)]
         IN  [heap |-> h2, spans |-> [sp EXCEPT ![span] = @ \o <<ann>>]]

\* annotate(e, span) on the heap h and the spans sp
annotate(h, e, span, sp) ==
    IF span = NIL
    THEN [heap |-> h, spans |-> sp]
    ELSE LET ctx == SpanContextOf[span]
             h2  == [h EXCEPT ![e].traceContext =
                        [TraceID |-> HexString(ctx.TraceID),
                         SpanID  |-> HexString(ctx.SpanID)]]
             src == h2[e].sourceLocation
             ann == [call |-> "Annotate",
                     attributes |->
                        << [key |-> "function", value |-> src.Function],
                           [key |-> "file",     value |-> src.File],
                           [key |-> "line",     value |-> src.Line],
                           [key |-> "version",  value |-> src.Version],
                           [key |-> "commit",   value |-> src.Commit],
                           [key |-> "branch",   value |-> src.Branch] >>,
                     str |-> <<"E","r","r","o","r",":"," ">> \o Error(h2, e)]
             st  == [call |-> "SetStatus", code |-> StatusCodeUnknown]
         IN  [heap |-> h2, spans |-> [sp EXCEPT ![span] = @ \o <<ann, st>>]]

----------------------------------------------------------------------------
(* The state after construction *)

\* the values the linker wrote over the defaults (-ldflags)
BuildStamps ==
    { [version |-> "v1.2.0", commit |-> "4f2a9c1", branch |-> "master"] }

NoCall ==
    [op |-> "none", depth |-> 0, span |-> NIL, e |-> NIL, m |-> <<>>, args |-> <<>>,
     stack |-> <<>>, sc |-> EmptyTraceContext, result |-> NIL, panicked |-> FALSE]

\* the threads that call the package
Threads == {1, 2}

\* a thread that is not inside a call of the package
Idle ==
    [pc |-> "idle", call |-> NoCall, under |-> NIL,
     fr |-> [function |-> "", file |-> "", line |-> 0], err |-> NIL]

Init ==
    /\ heap = <<>>
    /\ spans = [s \in SpanIds |-> <<>>]
    /\ last = NoCall
    /\ hist = <<>>
    /\ nops = 0
    /\ threads = [t \in Threads |-> Idle]
    /\ \E b \in BuildStamps :
          /\ VERSION = b.version
          /\ COMMIT = b.commit
          /\ BRANCH = b.branch

SpanArgs == {NIL} \cup SpanIds
Depths == 0..MaxDepth
\* the errors a caller holds: nil, those made outside the package and those the
\* constructors returned
ErrArgs == {NIL} \cup { id \in 1..Len(heap) : \/ heap[id].kind \in {"errorContext", "customError"}
                                             \/ \A c \in 1..Len(hist) : hist[c].under # id }

\* a constructor returns: h and sp are the heap and the spans it leaves, under
\* and err the addresses of the underlying error and of the decorated error
Returns(call, h, sp, under, err) ==
    /\ heap' = h
    /\ spans' = sp
    /\ last' = [call EXCEPT !.result = err]
    /\ hist' = Append(hist, [op |-> call.op, e |-> call.e, m |-> call.m,
                             under |-> under, result |-> err])
    /\ nops' = nops + 1
    /\ UNCHANGED <<threads, VERSION, COMMIT, BRANCH>>

----------------------------------------------------------------------------
(* Errors made outside the package *)

\* var errSentinel = stderr.New("sentinel error")
MakeSentinel ==
    /\ nops < MaxOps
    /\ Len(heap) + 1 <= MaxHeap
    /\ heap' = Append(heap, errorsNew(<<"s">>))
    /\ last' = [NoCall EXCEPT !.op = "MakeSentinel", !.result = Len(heap) + 1]
    /\ nops' = nops + 1
    /\ UNCHANGED <<spans, hist, threads, VERSION, COMMIT, BRANCH>>

\* err := &customError{Err: "err"}
MakeCustom ==
    /\ nops < MaxOps
    /\ Len(heap) + 1 <= MaxHeap
    /\ heap' = Append(heap, customError(<<"e">>))
    /\ last' = [NoCall EXCEPT !.op = "MakeCustom", !.result = Len(heap) + 1]
    /\ nops' = nops + 1
    /\ UNCHANGED <<spans, hist, threads, VERSION, COMMIT, BRANCH>>

----------------------------------------------------------------------------
(* The constructors *)

NewCaller ==
    \E depth \in Depths, m \in Msgs, st \in Stacks :
        /\ nops < MaxOps
        /\ Len(heap) + 2 <= MaxHeap
        /\ LET under == Len(heap) + 1
               err   == Len(heap) + 2
               loc   == NewSourceLocation(depth, Callers("NewCaller", st))
               h     == heap \o <<errorsNew(m), errorContext(under, loc)>>
           IN  Returns([NoCall EXCEPT !.op = "NewCaller", !.depth = depth, !.m = m, !.stack = st],
                       h, spans, under, err)

NewCallerT ==
    \E depth \in Depths, span \in SpanArgs, m \in Msgs, st \in Stacks :
        /\ nops < MaxOps
        /\ Len(heap) + 2 <= MaxHeap
        /\ LET under == Len(heap) + 1
               err   == Len(heap) + 2
               loc   == NewSourceLocation(depth, Callers("NewCallerT", st))
               h     == heap \o <<errorsNew(m), errorContext(under, loc)>>
               r     == annotate(h, err, span, spans)
           IN  Returns([NoCall EXCEPT !.op = "NewCallerT", !.depth = depth, !.span = span, !.m = m, !.stack = st],
                       r.heap, r.spans, under, err)

NewCallerf ==
    \E depth \in Depths, fc \in FormatCalls, st \in Stacks :
        /\ nops < MaxOps
        /\ Len(heap) + 2 <= MaxHeap
        /\ LET under == Len(heap) + 1
               err   == Len(heap) + 2
               loc   == NewSourceLocation(depth, Callers("NewCallerf", st))
               h     == heap \o <<fmtErrorf(fc.f, fc.args), errorContext(under, loc)>>
           IN  Returns([NoCall EXCEPT !.op = "NewCallerf", !.depth = depth, !.m = fc.f, !.args = fc.args, !.stack = st],
                       h, spans, under, err)

NewCallerfT ==
    \E depth \in Depths, span \in SpanArgs, fc \in FormatCalls, st \in Stacks :
        /\ nops < MaxOps
        /\ Len(heap) + 2 <= MaxHeap
        /\ LET under == Len(heap) + 1
               err   == Len(heap) + 2
               loc   == NewSourceLocation(depth, Callers("NewCallerfT", st))
               h     == heap \o <<fmtErrorf(fc.f, fc.args), errorContext(under, loc)>>
               r     == annotate(h, err, span, spans)
           IN  Returns([NoCall EXCEPT !.op = "NewCallerfT", !.depth = depth, !.span = span, !.m = fc.f, !.args = fc.args, !.stack = st],
                       r.heap, r.spans, under, err)

WrapCaller ==
    \E depth \in Depths, e \in ErrArgs, m \in Msgs, st \in Stacks :
        /\ nops < MaxOps
        /\ Len(heap) + 2 <= MaxHeap
        /\ LET under == Len(heap) + 1
               err   == Len(heap) + 2
               loc   == NewSourceLocation(depth, Callers("WrapCaller", st))
               h     == heap \o <<fmtErrorfWrap(heap, m, e), errorContext(under, loc)>>
           IN  Returns([NoCall EXCEPT !.op = "WrapCaller", !.depth = depth, !.e = e, !.m = m, !.stack = st],
                       h, spans, under, err)

WrapCallerT ==
    \E depth \in Depths, span \in SpanArgs, e \in ErrArgs, m \in Msgs, st \in Stacks :
        /\ nops < MaxOps
        /\ Len(heap) + 2 <= MaxHeap
        /\ LET under == Len(heap) + 1
               err   == Len(heap) + 2
               loc   == NewSourceLocation(depth, Callers("WrapCallerT", st))
               h     == heap \o <<fmtErrorfWrap(heap, m, e), errorContext(under, loc)>>
               r     == annotate(h, err, span, spans)
           IN  Returns([NoCall EXCEPT !.op = "WrapCallerT", !.depth = depth, !.span = span, !.e = e, !.m = m, !.stack = st],
                       r.heap, r.spans, under, err)

WrapCallerf ==
    \E depth \in Depths, e \in ErrArgs, fc \in FormatCalls, st \in Stacks :
        /\ nops < MaxOps
        /\ Len(heap) + 2 <= MaxHeap
        /\ LET under == Len(heap) + 1
               err   == Len(heap) + 2
               m     == Sprintf(fc.f, fc.args)
               loc   == NewSourceLocation(depth, Callers("WrapCallerf", st))
               h     == heap \o <<fmtErrorfWrap(heap, m, e), errorContext(under, loc)>>
           IN  Returns([NoCall EXCEPT !.op = "WrapCallerf", !.depth = depth, !.e = e, !.m = fc.f, !.args = fc.args, !.stack = st],
                       h, spans, under, err)

WrapCallerfT ==
    \E depth \in Depths, span \in SpanArgs, e \in ErrArgs, fc \in FormatCalls, st \in Stacks :
        /\ nops < MaxOps
        /\ Len(heap) + 2 <= MaxHeap
        /\ LET under == Len(heap) + 1
               err   == Len(heap) + 2
               m     == Sprintf(fc.f, fc.args)
               loc   == NewSourceLocation(depth, Callers("WrapCallerfT", st))
               h     == heap \o <<fmtErrorfWrap(heap, m, e), errorContext(under, loc)>>
               r     == annotate(h, err, span, spans)
           IN  Returns([NoCall EXCEPT !.op = "WrapCallerfT", !.depth = depth, !.span = span, !.e = e, !.m = fc.f, !.args = fc.args, !.stack = st],
                       r.heap, r.spans, under, err)

New ==
    \E m \in Msgs, st \in Stacks :
        /\ nops < MaxOps
        /\ Len(heap) + 2 <= MaxHeap
        /\ LET under == Len(heap) + 1
               err   == Len(heap) + 2
               loc   == NewSourceLocation(wrappedFunctionCallDepth, Callers("New", st))
               h     == heap \o <<errorsNew(m), errorContext(under, loc)>>
           IN  Returns([NoCall EXCEPT !.op = "New", !.depth = wrappedFunctionCallDepth, !.m = m, !.stack = st],
                       h, spans, under, err)

NewT ==
    \E span \in SpanArgs, m \in Msgs, st \in Stacks :
        /\ nops < MaxOps
        /\ Len(heap) + 2 <= MaxHeap
        /\ LET under == Len(heap) + 1
               err   == Len(heap) + 2
               loc   == NewSourceLocation(wrappedFunctionCallDepth, Callers("NewT", st))
               h     == heap \o <<errorsNew(m), errorContext(under, loc)>>
               r     == annotate(h, err, span, spans)
           IN  Returns([NoCall EXCEPT !.op = "NewT", !.depth = wrappedFunctionCallDepth, !.span = span, !.m = m, !.stack = st],
                       r.heap, r.spans, under, err)

Errorf ==
    \E fc \in FormatCalls, st \in Stacks :
        /\ nops < MaxOps
        /\ Len(heap) + 2 <= MaxHeap
        /\ LET under == Len(heap) + 1
               err   == Len(heap) + 2
               loc   == NewSourceLocation(wrappedFunctionCallDepth, Callers("Errorf", st))
               h     == heap \o <<fmtErrorf(fc.f, fc.args), errorContext(under, loc)>>
           IN  Returns([NoCall EXCEPT !.op = "Errorf", !.depth = wrappedFunctionCallDepth, !.m = fc.f, !.args = fc.args, !.stack = st],
                       h, spans, under, err)

ErrorfT ==
    \E span \in SpanArgs, fc \in FormatCalls, st \in Stacks :
        /\ nops < MaxOps
        /\ Len(heap) + 2 <= MaxHeap
        /\ LET under == Len(heap) + 1
               err   == Len(heap) + 2
               loc   == NewSourceLocation(wrappedFunctionCallDepth, Callers("ErrorfT", st))
               h     == heap \o <<fmtErrorf(fc.f, fc.args), errorContext(under, loc)>>
               r     == annotate(h, err, span, spans)
           IN  Returns([NoCall EXCEPT !.op = "ErrorfT", !.depth = wrappedFunctionCallDepth, !.span = span, !.m = fc.f, !.args = fc.args, !.stack = st],
                       r.heap, r.spans, under, err)

Wrap ==
    \E e \in ErrArgs, m \in Msgs, st \in Stacks :
        /\ nops < MaxOps
        /\ Len(heap) + 2 <= MaxHeap
        /\ LET under == Len(heap) + 1
               err   == Len(heap) + 2
               loc   == NewSourceLocation(wrappedFunctionCallDepth, Callers("Wrap", st))
               h     == heap \o <<fmtErrorfWrap(heap, m, e), errorContext(under, loc)>>
           IN  Returns([NoCall EXCEPT !.op = "Wrap", !.depth = wrappedFunctionCallDepth, !.e = e, !.m = m, !.stack = st],
                       h, spans, under, err)

WrapT ==
    \E span \in SpanArgs, e \in ErrArgs, m \in Msgs, st \in Stacks :
        /\ nops < MaxOps
        /\ Len(heap) + 2 <= MaxHeap
        /\ LET under == Len(heap) + 1
               err   == Len(heap) + 2
               loc   == NewSourceLocation(wrappedFunctionCallDepth, Callers("WrapT", st))
               h     == heap \o <<fmtErrorfWrap(heap, m, e), errorContext(under, loc)>>
               r     == annotate(h, err, span, spans)
           IN  Returns([NoCall EXCEPT !.op = "WrapT", !.depth = wrappedFunctionCallDepth, !.span = span, !.e = e, !.m = m, !.stack = st],
                       r.heap, r.spans, under, err)

Wrapf ==
    \E e \in ErrArgs, fc \in FormatCalls, st \in Stacks :
        /\ nops < MaxOps
        /\ Len(heap) + 2 <= MaxHeap
        /\ LET under == Len(heap) + 1
               err   == Len(heap) + 2
               m     == Sprintf(fc.f, fc.args)
               loc   == NewSourceLocation(wrappedFunctionCallDepth, Callers("Wrapf", st))
               h     == heap \o <<fmtErrorfWrap(heap, m, e), errorContext(under, loc)>>
           IN  Returns([NoCall EXCEPT !.op = "Wrapf", !.depth = wrappedFunctionCallDepth, !.e = e, !.m = fc.f, !.args = fc.args, !.stack = st],
                       h, spans, under, err)

WrapfT ==
    \E span \in SpanArgs, e \in ErrArgs, fc \in FormatCalls, st \in Stacks :
        /\ nops < MaxOps
        /\ Len(heap) + 2 <= MaxHeap
        /\ LET under == Len(heap) + 1
               err   == Len(heap) + 2
               m     == Sprintf(fc.f, fc.args)
               loc   == NewSourceLocation(wrappedFunctionCallDepth, Callers("WrapfT", st))
               h     == heap \o <<fmtErrorfWrap(heap, m, e), errorContext(under, loc)>>
               r     == annotate(h, err, span, spans)
           IN  Returns([NoCall EXCEPT !.op = "WrapfT", !.depth = wrappedFunctionCallDepth, !.span = span, !.e = e, !.m = fc.f, !.args = fc.args, !.stack = st],
                       r.heap, r.spans, under, err)

----------------------------------------------------------------------------
(* The setters *)

\* the decorated errors of the heap
Decorated(h) == { id \in 1..Len(h) : h[id].kind = "errorContext" }

\* SetSourceLocation that counts the depth from its caller
SetSourceLocation_fromCaller ==
    \E e \in Decorated(heap), depth \in Depths, st \in Stacks :
        /\ nops < MaxOps
        /\ heap' = [heap EXCEPT ![e].sourceLocation =
                        NewSourceLocation(depth + 1, Callers("SetSourceLocation", st))]
        /\ last' = [NoCall EXCEPT !.op = "SetSourceLocation", !.depth = depth,
                                  !.e = e, !.stack = st, !.result = e]
        /\ nops' = nops + 1
        /\ UNCHANGED <<spans, hist, threads, VERSION, COMMIT, BRANCH>>

\* SetSourceLocation that builds a new errorContext value around the location
\* and so loses the trace context
SetSourceLocation_dropsTrace ==
    \E e \in Decorated(heap), depth \in Depths, st \in Stacks :
        /\ nops < MaxOps
        /\ heap' = [heap EXCEPT ![e] =
                        errorContext(heap[e].err,
                                     NewSourceLocation(depth, Callers("SetSourceLocation", st)))]
        /\ last' = [NoCall EXCEPT !.op = "SetSourceLocation", !.depth = depth,
                                  !.e = e, !.stack = st, !.result = e]
        /\ nops' = nops + 1
        /\ UNCHANGED <<spans, hist, threads, VERSION, COMMIT, BRANCH>>

SetSourceLocation ==
    \E e \in Decorated(heap), depth \in Depths, st \in Stacks :
        /\ nops < MaxOps
        /\ heap' = [heap EXCEPT ![e].sourceLocation =
                        NewSourceLocation(depth, Callers("SetSourceLocation", st))]
        /\ last' = [NoCall EXCEPT !.op = "SetSourceLocation", !.depth = depth,
                                  !.e = e, !.stack = st, !.result = e]
        /\ nops' = nops + 1
        /\ UNCHANGED <<spans, hist, threads, VERSION, COMMIT, BRANCH>>

\* SetTraceContext that stores the trace id and leaves the span id as it was
SetTraceContext_traceIDOnly ==
    \E e \in Decorated(heap), t \in SetterContexts :
        /\ nops < MaxOps
        /\ heap' = [heap EXCEPT ![e].traceContext.TraceID = HexString(t.TraceID)]
        /\ last' = [NoCall EXCEPT !.op = "SetTraceContext", !.e = e, !.sc = t,
                                  !.result = e]
        /\ nops' = nops + 1
        /\ UNCHANGED <<spans, hist, threads, VERSION, COMMIT, BRANCH>>

SetTraceContext ==
    \E e \in Decorated(heap), t \in SetterContexts :
        /\ nops < MaxOps
        /\ heap' = [heap EXCEPT ![e].traceContext =
                        [TraceID |-> HexString(t.TraceID),
                         SpanID  |-> HexString(t.SpanID)]]
        /\ last' = [NoCall EXCEPT !.op = "SetTraceContext", !.e = e, !.sc = t,
                                  !.result = e]
        /\ nops' = nops + 1
        /\ UNCHANGED <<spans, hist, threads, VERSION, COMMIT, BRANCH>>

----------------------------------------------------------------------------
(* Is and As *)

RECURSIVE IsLoop(_, _, _)
\* the loop of errors.Is: every error of the model is a pointer, so it is
\* comparable and == is identity, and none has an Is method
IsLoop(h, err, target) ==
    IF err = target THEN TRUE
    ELSE IF Unwrap(h, err) = NIL THEN FALSE
    ELSE IsLoop(h, Unwrap(h, err), target)

Is(h, err, target) ==
    IF target = NIL THEN err = target ELSE IsLoop(h, err, target)

\* the types a caller of As can name
AsTargets == {"*customError", "ErrorTracer", "error"}

\* reflect's AssignableTo: can an error of this kind be stored in a variable
\* of type T
AssignableTo(kind, T) ==
    CASE T = "*customError" -> kind = "customError"
      [] T = "ErrorTracer"  -> kind = "errorContext"
      [] T = "error"        -> TRUE

\* As that looks at err alone and not at what it wraps
As_headOnly(h, err, T, dest) ==
    IF err = NIL THEN [ok |-> FALSE, dest |-> dest]
    ELSE IF AssignableTo(h[err].kind, T) THEN [ok |-> TRUE, dest |-> err]
    ELSE [ok |-> FALSE, dest |-> dest]

RECURSIVE As(_, _, _, _)
\* errors.As(err, &dest) where dest has type T and holds the value dest now:
\* whether a node matched, and what dest holds afterwards
As(h, err, T, dest) ==
    IF err = NIL THEN [ok |-> FALSE, dest |-> dest]
    ELSE IF AssignableTo(h[err].kind, T) THEN [ok |-> TRUE, dest |-> err]
    ELSE As(h, Unwrap(h, err), T, dest)

----------------------------------------------------------------------------

Next ==
    \/ MakeSentinel
    \/ MakeCustom
    \/ NewCaller
    \/ NewCallerT
    \/ NewCallerf
    \/ NewCallerfT
    \/ WrapCaller
    \/ WrapCallerT
    \/ WrapCallerf
    \/ WrapCallerfT
    \/ New
    \/ NewT
    \/ Errorf
    \/ ErrorfT
    \/ Wrap
    \/ WrapT
    \/ Wrapf
    \/ WrapfT
    \/ SetSourceLocation
    \/ SetTraceContext

Spec == Init /\ [][Next]_vars

----------------------------------------------------------------------------
(* The package as it is in errors.go: github.com/pkg/errors underneath *)

\* the depths and spans handed to the functions of errors.go
LegacyDepths == {2, MaxDepth}
LegacySpanArgs == {NIL, 1}

\* the line, in each function of errors.go, of its call of NewSourceLocation
\* (for NewSourceLocation: of its call of runtime.Caller)
LegacyCallLine ==
    [ NewSourceLocation |-> 61, SetSourceLocation |-> 96,
      NewCaller |-> 114, NewCallerT |-> 123, NewCallerf |-> 132, NewCallerfT |-> 141,
      WrapCaller |-> 150, WrapCallerT |-> 159, WrapCallerf |-> 168, WrapCallerfT |-> 177,
      New |-> 188, NewT |-> 197, Errorf |-> 206, ErrorfT |-> 215,
      Wrap |-> 224, WrapT |-> 233, Wrapf |-> 242, WrapfT |-> 251 ]

LegacyPkgFrame(fn) ==
    [function |-> FuncName(fn), file |-> "errors.go", line |-> LegacyCallLine[fn]]

LegacyCallers(fn, st) == <<LegacyPkgFrame(fn)>> \o st

LegacyNewSourceLocation(depth, callers) ==
    LET fr == RuntimeCaller(<<LegacyPkgFrame("NewSourceLocation")>> \o callers, depth)
    IN  [Function |-> fr.function, File |-> fr.file, Line |-> fr.line]

\* pkg/errors.New(m): a *fundamental
pkgNew(h, m) ==
    [heap |-> Append(h, [kind |-> "fundamental", msg |-> m]), err |-> Len(h) + 1]

\* pkg/errors.Errorf(format, args...): a *fundamental with the rendered text
pkgErrorf(h, format, a) ==
    [heap |-> Append(h, [kind |-> "fundamental", msg |-> Sprintf(format, a)]),
     err |-> Len(h) + 1]

\* pkg/errors.Wrap(e, m): nil when e is nil, otherwise a *withStack around a
\* *withMessage whose cause is e
pkgWrap(h, e, m) ==
    IF e = NIL
    THEN [heap |-> h, err |-> NIL]
    ELSE [heap |-> h \o << [kind |-> "withMessage", cause |-> e, msg |-> m],
                           [kind |-> "withStack", err |-> Len(h) + 1] >>,
          err |-> Len(h) + 2]

\* pkg/errors.Wrapf(e, format, args...)
pkgWrapf(h, e, format, a) ==
    IF e = NIL
    THEN [heap |-> h, err |-> NIL]
    ELSE [heap |-> h \o << [kind |-> "withMessage", cause |-> e, msg |-> Sprintf(format, a)],
                           [kind |-> "withStack", err |-> Len(h) + 1] >>,
          err |-> Len(h) + 2]

\* annotate(e, span) of errors.go; e.Error() dereferences e.err, and with a nil
\* e.err the call panics after the trace context is stored and before the span
\* is annotated
LegacyAnnotate(h, e, span, sp) ==
    IF span = NIL
    THEN [heap |-> h, spans |-> sp, panicked |-> FALSE]
    ELSE LET ctx == SpanContextOf[span]
             h2  == [h EXCEPT ![e].traceContext =
                        [TraceID |-> HexString(ctx.TraceID),
                         SpanID  |-> HexString(ctx.SpanID)]]
             src == h2[e].sourceLocation
             ann == [call |-> "Annotate",
                     attributes |->
                        << [key |-> "function", value |-> src.Function],
                           [key |-> "file",     value |-> src.File],
                           [key |-> "line",     value |-> src.Line] >>,
                     str |-> <<"E","r","r","o","r",":"," ">> \o Error(h2, e)]
         IN  IF h2[e].err = NIL
             THEN [heap |-> h2, spans |-> sp, panicked |-> TRUE]
             ELSE [heap |-> h2, spans |-> [sp EXCEPT ![span] = @ \o <<ann>>],
                   panicked |-> FALSE]

\* the error kinds of errors.go that have a Cause method: errorContext
\* (errors.go:87), and withStack and withMessage of pkg/errors
Causers == {"errorContext", "withStack", "withMessage"}

\* what the Cause method of the error at id returns
CauseMethod(h, id) ==
    IF h[id].kind = "withMessage" THEN h[id].cause ELSE h[id].err

RECURSIVE Cause(_, _)
\* Cause(e) of errors.go, which is pkg/errors.Cause: while err is not nil and
\* has a Cause method, err = err.Cause(); then return err
Cause(h, e) ==
    IF e = NIL THEN NIL
    ELSE IF h[e].kind \in Causers THEN Cause(h, CauseMethod(h, e))
    ELSE e

\* the errors a caller of errors.go holds: nil and those the constructors
\* returned
LegacyErrArgs == {NIL} \cup { hist[c].result : c \in 1..Len(hist) }

\* a constructor of errors.go returns, or panics
LegacyReturns(call, h, sp, panicked, under, err) ==
    /\ heap' = h
    /\ spans' = sp
    /\ last' = [call EXCEPT !.result = IF panicked THEN NIL ELSE err,
                            !.panicked = panicked]
    /\ hist' = Append(hist, [op |-> call.op, e |-> call.e, m |-> call.m,
                             under |-> under,
                             result |-> IF panicked THEN NIL ELSE err])
    /\ nops' = nops + 1
    /\ UNCHANGED <<threads, VERSION, COMMIT, BRANCH>>

LegacyNewCaller ==
    \E depth \in LegacyDepths, m \in Msgs, st \in Stacks :
        /\ nops < MaxOps
        /\ LET b     == pkgNew(heap, m)
               err   == Len(b.heap) + 1
               loc   == LegacyNewSourceLocation(depth, LegacyCallers("NewCaller", st))
               h     == Append(b.heap, errorContext(b.err, loc))
           IN  LegacyReturns([NoCall EXCEPT !.op = "NewCaller", !.depth = depth, !.m = m, !.stack = st],
                             h, spans, FALSE, b.err, err)

LegacyNewCallerT ==
    \E depth \in LegacyDepths, span \in LegacySpanArgs, m \in Msgs, st \in Stacks :
        /\ nops < MaxOps
        /\ LET b     == pkgNew(heap, m)
               err   == Len(b.heap) + 1
               loc   == LegacyNewSourceLocation(depth, LegacyCallers("NewCallerT", st))
               h     == Append(b.heap, errorContext(b.err, loc))
               r     == LegacyAnnotate(h, err, span, spans)
           IN  LegacyReturns([NoCall EXCEPT !.op = "NewCallerT", !.depth = depth, !.span = span, !.m = m, !.stack = st],
                             r.heap, r.spans, r.panicked, b.err, err)

LegacyNewCallerf ==
    \E depth \in LegacyDepths, fc \in FormatCalls, st \in Stacks :
        /\ nops < MaxOps
        /\ LET b     == pkgErrorf(heap, fc.f, fc.args)
               err   == Len(b.heap) + 1
               loc   == LegacyNewSourceLocation(depth, LegacyCallers("NewCallerf", st))
               h     == Append(b.heap, errorContext(b.err, loc))
           IN  LegacyReturns([NoCall EXCEPT !.op = "NewCallerf", !.depth = depth, !.m = fc.f, !.args = fc.args, !.stack = st],
                             h, spans, FALSE, b.err, err)

LegacyNewCallerfT ==
    \E depth \in LegacyDepths, span \in LegacySpanArgs, fc \in FormatCalls, st \in Stacks :
        /\ nops < MaxOps
        /\ LET b     == pkgErrorf(heap, fc.f, fc.args)
               err   == Len(b.heap) + 1
               loc   == LegacyNewSourceLocation(depth, LegacyCallers("NewCallerfT", st))
               h     == Append(b.heap, errorContext(b.err, loc))
               r     == LegacyAnnotate(h, err, span, spans)
           IN  LegacyReturns([NoCall EXCEPT !.op = "NewCallerfT", !.depth = depth, !.span = span, !.m = fc.f, !.args = fc.args, !.stack = st],
                             r.heap, r.spans, r.panicked, b.err, err)

LegacyWrapCaller ==
    \E depth \in LegacyDepths, e \in LegacyErrArgs, m \in Msgs, st \in Stacks :
        /\ nops < MaxOps
        /\ LET b     == pkgWrap(heap, e, m)
               err   == Len(b.heap) + 1
               loc   == LegacyNewSourceLocation(depth, LegacyCallers("WrapCaller", st))
               h     == Append(b.heap, errorContext(b.err, loc))
           IN  LegacyReturns([NoCall EXCEPT !.op = "WrapCaller", !.depth = depth, !.e = e, !.m = m, !.stack = st],
                             h, spans, FALSE, b.err, err)

LegacyWrapCallerT ==
    \E depth \in LegacyDepths, span \in LegacySpanArgs, e \in LegacyErrArgs, m \in Msgs, st \in Stacks :
        /\ nops < MaxOps
        /\ LET b     == pkgWrap(heap, e, m)
               err   == Len(b.heap) + 1
               loc   == LegacyNewSourceLocation(depth, LegacyCallers("WrapCallerT", st))
               h     == Append(b.heap, errorContext(b.err, loc))
               r     == LegacyAnnotate(h, err, span, spans)
           IN  LegacyReturns([NoCall EXCEPT !.op = "WrapCallerT", !.depth = depth, !.span = span, !.e = e, !.m = m, !.stack = st],
                             r.heap, r.spans, r.panicked, b.err, err)

LegacyWrapCallerf ==
    \E depth \in LegacyDepths, e \in LegacyErrArgs, fc \in FormatCalls, st \in Stacks :
        /\ nops < MaxOps
        /\ LET b     == pkgWrapf(heap, e, fc.f, fc.args)
               err   == Len(b.heap) + 1
               loc   == LegacyNewSourceLocation(depth, LegacyCallers("WrapCallerf", st))
               h     == Append(b.heap, errorContext(b.err, loc))
           IN  LegacyReturns([NoCall EXCEPT !.op = "WrapCallerf", !.depth = depth, !.e = e, !.m = fc.f, !.args = fc.args, !.stack = st],
                             h, spans, FALSE, b.err, err)

LegacyWrapCallerfT ==
    \E depth \in LegacyDepths, span \in LegacySpanArgs, e \in LegacyErrArgs, fc \in FormatCalls, st \in Stacks :
        /\ nops < MaxOps
        /\ LET b     == pkgWrapf(heap, e, fc.f, fc.args)
               err   == Len(b.heap) + 1
               loc   == LegacyNewSourceLocation(depth, LegacyCallers("WrapCallerfT", st))
               h     == Append(b.heap, errorContext(b.err, loc))
               r     == LegacyAnnotate(h, err, span, spans)
           IN  LegacyReturns([NoCall EXCEPT !.op = "WrapCallerfT", !.depth = depth, !.span = span, !.e = e, !.m = fc.f, !.args = fc.args, !.stack = st],
                             r.heap, r.spans, r.panicked, b.err, err)

LegacyNew ==
    \E m \in Msgs, st \in Stacks :
        /\ nops < MaxOps
        /\ LET b     == pkgNew(heap, m)
               err   == Len(b.heap) + 1
               loc   == LegacyNewSourceLocation(2, LegacyCallers("New", st))
               h     == Append(b.heap, errorContext(b.err, loc))
           IN  LegacyReturns([NoCall EXCEPT !.op = "New", !.depth = 2, !.m = m, !.stack = st],
                             h, spans, FALSE, b.err, err)

LegacyNewT ==
    \E span \in LegacySpanArgs, m \in Msgs, st \in Stacks :
        /\ nops < MaxOps
        /\ LET b     == pkgNew(heap, m)
               err   == Len(b.heap) + 1
               loc   == LegacyNewSourceLocation(2, LegacyCallers("NewT", st))
               h     == Append(b.heap, errorContext(b.err, loc))
               r     == LegacyAnnotate(h, err, span, spans)
           IN  LegacyReturns([NoCall EXCEPT !.op = "NewT", !.depth = 2, !.span = span, !.m = m, !.stack = st],
                             r.heap, r.spans, r.panicked, b.err, err)

LegacyErrorf ==
    \E fc \in FormatCalls, st \in Stacks :
        /\ nops < MaxOps
        /\ LET b     == pkgErrorf(heap, fc.f, fc.args)
               err   == Len(b.heap) + 1
               loc   == LegacyNewSourceLocation(2, LegacyCallers("Errorf", st))
               h     == Append(b.heap, errorContext(b.err, loc))
           IN  LegacyReturns([NoCall EXCEPT !.op = "Errorf", !.depth = 2, !.m = fc.f, !.args = fc.args, !.stack = st],
                             h, spans, FALSE, b.err, err)

LegacyErrorfT ==
    \E span \in LegacySpanArgs, fc \in FormatCalls, st \in Stacks :
        /\ nops < MaxOps
        /\ LET b     == pkgErrorf(heap, fc.f, fc.args)
               err   == Len(b.heap) + 1
               loc   == LegacyNewSourceLocation(2, LegacyCallers("ErrorfT", st))
               h     == Append(b.heap, errorContext(b.err, loc))
               r     == LegacyAnnotate(h, err, span, spans)
           IN  LegacyReturns([NoCall EXCEPT !.op = "ErrorfT", !.depth = 2, !.span = span, !.m = fc.f, !.args = fc.args, !.stack = st],
                             r.heap, r.spans, r.panicked, b.err, err)

LegacyWrap ==
    \E e \in LegacyErrArgs, m \in Msgs, st \in Stacks :
        /\ nops < MaxOps
        /\ LET b     == pkgWrap(heap, e, m)
               err   == Len(b.heap) + 1
               loc   == LegacyNewSourceLocation(2, LegacyCallers("Wrap", st))
               h     == Append(b.heap, errorContext(b.err, loc))
           IN  LegacyReturns([NoCall EXCEPT !.op = "Wrap", !.depth = 2, !.e = e, !.m = m, !.stack = st],
                             h, spans, FALSE, b.err, err)

LegacyWrapT ==
    \E span \in LegacySpanArgs, e \in LegacyErrArgs, m \in Msgs, st \in Stacks :
        /\ nops < MaxOps
        /\ LET b     == pkgWrap(heap, e, m)
               err   == Len(b.heap) + 1
               loc   == LegacyNewSourceLocation(2, LegacyCallers("WrapT", st))
               h     == Append(b.heap, errorContext(b.err, loc))
               r     == LegacyAnnotate(h, err, span, spans)
           IN  LegacyReturns([NoCall EXCEPT !.op = "WrapT", !.depth = 2, !.span = span, !.e = e, !.m = m, !.stack = st],
                             r.heap, r.spans, r.panicked, b.err, err)

LegacyWrapf ==
    \E e \in LegacyErrArgs, fc \in FormatCalls, st \in Stacks :
        /\ nops < MaxOps
        /\ LET b     == pkgWrapf(heap, e, fc.f, fc.args)
               err   == Len(b.heap) + 1
               loc   == LegacyNewSourceLocation(2, LegacyCallers("Wrapf", st))
               h     == Append(b.heap, errorContext(b.err, loc))
           IN  LegacyReturns([NoCall EXCEPT !.op = "Wrapf", !.depth = 2, !.e = e, !.m = fc.f, !.args = fc.args, !.stack = st],
                             h, spans, FALSE, b.err, err)

LegacyWrapfT ==
    \E span \in LegacySpanArgs, e \in LegacyErrArgs, fc \in FormatCalls, st \in Stacks :
        /\ nops < MaxOps
        /\ LET b     == pkgWrapf(heap, e, fc.f, fc.args)
               err   == Len(b.heap) + 1
               loc   == LegacyNewSourceLocation(2, LegacyCallers("WrapfT", st))
               h     == Append(b.heap, errorContext(b.err, loc))
               r     == LegacyAnnotate(h, err, span, spans)
           IN  LegacyReturns([NoCall EXCEPT !.op = "WrapfT", !.depth = 2, !.span = span, !.e = e, !.m = fc.f, !.args = fc.args, !.stack = st],
                             r.heap, r.spans, r.panicked, b.err, err)

LegacySetSourceLocation ==
    \E e \in LegacyErrArgs \ {NIL}, depth \in LegacyDepths, st \in Stacks :
        /\ nops < MaxOps
        /\ heap' = [heap EXCEPT ![e].sourceLocation =
                        LegacyNewSourceLocation(depth, LegacyCallers("SetSourceLocation", st))]
        /\ last' = [NoCall EXCEPT !.op = "SetSourceLocation", !.depth = depth,
                                  !.e = e, !.stack = st, !.result = e]
        /\ nops' = nops + 1
        /\ UNCHANGED <<spans, hist, threads, VERSION, COMMIT, BRANCH>>

LegacySetTraceContext ==
    \E e \in LegacyErrArgs \ {NIL}, t \in SetterContexts :
        /\ nops < MaxOps
        /\ heap' = [heap EXCEPT ![e].traceContext =
                        [TraceID |-> HexString(t.TraceID),
                         SpanID  |-> HexString(t.SpanID)]]
        /\ last' = [NoCall EXCEPT !.op = "SetTraceContext", !.e = e, !.sc = t,
                                  !.result = e]
        /\ nops' = nops + 1
        /\ UNCHANGED <<spans, hist, threads, VERSION, COMMIT, BRANCH>>

NextLegacy ==
    \/ LegacyNewCaller
    \/ LegacyNewCallerT
    \/ LegacyNewCallerf
    \/ LegacyNewCallerfT
    \/ LegacyWrapCaller
    \/ LegacyWrapCallerT
    \/ LegacyWrapCallerf
    \/ LegacyWrapCallerfT
    \/ LegacyNew
    \/ LegacyNewT
    \/ LegacyErrorf
    \/ LegacyErrorfT
    \/ LegacyWrap
    \/ LegacyWrapT
    \/ LegacyWrapf
    \/ LegacyWrapfT
    \/ LegacySetSourceLocation
    \/ LegacySetTraceContext

SpecLegacy == Init /\ [][NextLegacy]_vars

----------------------------------------------------------------------------
(* The current source called by several threads *)

\* the constructors by what they build
ConvenienceOps == {"New", "NewT", "Errorf", "ErrorfT", "Wrap", "WrapT", "Wrapf", "WrapfT"}
CallerOps ==
    {"NewCaller", "NewCallerT", "NewCallerf", "NewCallerfT",
     "WrapCaller", "WrapCallerT", "WrapCallerf", "WrapCallerfT"}
ConstructorOps == ConvenienceOps \cup CallerOps
WrapOps == {"Wrap", "WrapT", "WrapCaller", "WrapCallerT"}
WrapfOps == {"Wrapf", "WrapfT", "WrapCallerf", "WrapCallerfT"}
TraceOps ==
    {"NewT", "ErrorfT", "WrapT", "WrapfT",
     "NewCallerT", "NewCallerfT", "WrapCallerT", "WrapCallerfT"}
ErrorfOps == {"Errorf", "ErrorfT", "NewCallerf", "NewCallerfT"}

\* the function thread 2 runs, which calls the package
UserH == [function |-> "github.com/bzon/errors_test.H", file |-> "errors_test.go", line |-> 33]

\* the stack of each thread where it calls the package
ThreadStacks == [t \in Threads |-> IF t = 1 THEN <<UserF, UserG>> ELSE <<UserH>>]

\* the message each thread hands to the constructors
ThreadMsgs == [t \in Threads |-> IF t = 1 THEN <<"a">> ELSE <<"b">>]

\* the spans a thread has: its own, and thread 2 also has the span of thread 1
ThreadSpanArgs(t) == {NIL} \cup { s \in SpanIds : s <= t }

\* the constructors the threads call, and the depths they hand to
\* SetSourceLocation: the setter itself and its caller
ThreadOps == {"New", "NewT", "Wrap", "WrapT"}
ThreadDepths == {1, wrappedFunctionCallDepth}

\* the errors the threads hold: nil and those a constructor has returned
HeldErrors == { hist[c].result : c \in 1..Len(hist) }

\* the calls in progress
Active == { t \in Threads : threads[t].pc # "idle" }

\* thread t calls a constructor: the arguments are evaluated
ThreadCall(t) ==
    /\ threads[t].pc = "idle"
    /\ nops + Cardinality(Active) < MaxOps
    /\ \E op \in ThreadOps, span \in ThreadSpanArgs(t), e \in {NIL} \cup HeldErrors,
          fc \in FormatCalls :
          /\ op \notin TraceOps => span = NIL
          /\ op \notin WrapOps \cup WrapfOps => e = NIL
          /\ threads' = [threads EXCEPT ![t] =
                [Idle EXCEPT !.pc = "underlying",
                             !.call = [NoCall EXCEPT
                                          !.op = op,
                                          !.depth = wrappedFunctionCallDepth,
                                          !.span = span,
                                          !.e = e,
                                          !.m = IF op \in ErrorfOps \cup WrapfOps
                                                THEN fc.f ELSE ThreadMsgs[t],
                                          !.args = IF op \in ErrorfOps \cup WrapfOps
                                                   THEN fc.args ELSE <<>>,
                                          !.stack = ThreadStacks[t]]]]
    /\ UNCHANGED <<heap, spans, last, hist, nops, VERSION, COMMIT, BRANCH>>

\* err: errors.New(m), fmt.Errorf(format, args...) or fmt.Errorf("%s: %w", m, e)
ThreadUnderlying(t) ==
    LET c == threads[t].call
        obj == IF c.op \in WrapOps THEN fmtErrorfWrap(heap, c.m, c.e)
               ELSE IF c.op \in WrapfOps THEN fmtErrorfWrap(heap, Sprintf(c.m, c.args), c.e)
               ELSE IF c.op \in ErrorfOps THEN fmtErrorf(c.m, c.args)
               ELSE errorsNew(c.m)
    IN  /\ threads[t].pc = "underlying"
        /\ heap' = Append(heap, obj)
        /\ threads' = [threads EXCEPT ![t].pc = "caller", ![t].under = Len(heap) + 1]
        /\ UNCHANGED <<spans, last, hist, nops, VERSION, COMMIT, BRANCH>>

\* ThreadCaller where the frame is kept in a variable of the package, which
\* every thread shares
ThreadCaller_sharedFrame(t) ==
    LET c  == threads[t].call
        fr == RuntimeCaller(<<PkgFrame("NewSourceLocation")>> \o Callers(c.op, c.stack),
                            c.depth)
    IN  /\ threads[t].pc = "caller"
        /\ threads' = [u \in Threads |->
                         IF u = t THEN [threads[u] EXCEPT !.pc = "stamps", !.fr = fr]
                         ELSE [threads[u] EXCEPT !.fr = fr]]
        /\ UNCHANGED <<heap, spans, last, hist, nops, VERSION, COMMIT, BRANCH>>

\* NewSourceLocation, its first statement: runtime.Caller(depth) on the thread's
\* own stack
ThreadCaller(t) ==
    LET c  == threads[t].call
        fr == RuntimeCaller(<<PkgFrame("NewSourceLocation")>> \o Callers(c.op, c.stack),
                            c.depth)
    IN  /\ threads[t].pc = "caller"
        /\ threads' = [threads EXCEPT ![t].pc = "stamps", ![t].fr = fr]
        /\ UNCHANGED <<heap, spans, last, hist, nops, VERSION, COMMIT, BRANCH>>

\* NewSourceLocation, its return statement, which reads VERSION, COMMIT and
\* BRANCH, and the allocation of the errorContext; annotate returns at once for
\* a nil span
ThreadStamps(t) ==
    LET c   == threads[t].call
        fr  == threads[t].fr
        loc == [Function |-> fr.function, File |-> fr.file, Line |-> fr.line,
                Version |-> VERSION, Commit |-> COMMIT, Branch |-> BRANCH]
    IN  /\ threads[t].pc = "stamps"
        /\ heap' = Append(heap, errorContext(threads[t].under, loc))
        /\ threads' = [threads EXCEPT
                          ![t].pc = IF c.op \in TraceOps /\ c.span # NIL
                                    THEN "traceContext" ELSE "return",
                          ![t].err = Len(heap) + 1]
        /\ UNCHANGED <<spans, last, hist, nops, VERSION, COMMIT, BRANCH>>

\* annotate: ctx := span.SpanContext(); e.traceContext = TraceContext{...}
ThreadTraceContext(t) ==
    LET ctx == SpanContextOf[threads[t].call.span]
    IN  /\ threads[t].pc = "traceContext"
        /\ heap' = [heap EXCEPT ![threads[t].err].traceContext =
                        [TraceID |-> HexString(ctx.TraceID),
                         SpanID  |-> HexString(ctx.SpanID)]]
        /\ threads' = [threads EXCEPT ![t].pc = "spanAnnotate"]
        /\ UNCHANGED <<spans, last, hist, nops, VERSION, COMMIT, BRANCH>>

\* annotate: src := e.SourceLocation(); span.Annotate(..., "Error: "+e.Error())
ThreadSpanAnnotate(t) ==
    LET e   == threads[t].err
        src == heap[e].sourceLocation
        ann == [call |-> "Annotate",
                attributes |->
                   << [key |-> "function", value |-> src.Function],
                      [key |-> "file",     value |-> src.File],
                      [key |-> "line",     value |-> src.Line],
                      [key |-> "version",  value |-> src.Version],
                      [key |-> "commit",   value |-> src.Commit],
                      [key |-> "branch",   value |-> src.Branch] >>,
                str |-> <<"E","r","r","o","r",":"," ">> \o Error(heap, e)]
    IN  /\ threads[t].pc = "spanAnnotate"
        /\ spans' = [spans EXCEPT ![threads[t].call.span] = Append(@, ann)]
        /\ threads' = [threads EXCEPT ![t].pc = "setStatus"]
        /\ UNCHANGED <<heap, last, hist, nops, VERSION, COMMIT, BRANCH>>

\* annotate: span.SetStatus(trace.Status{Code: trace.StatusCodeUnknown, ...})
ThreadSetStatus(t) ==
    /\ threads[t].pc = "setStatus"
    /\ spans' = [spans EXCEPT ![threads[t].call.span] =
                    Append(@, [call |-> "SetStatus", code |-> StatusCodeUnknown])]
    /\ threads' = [threads EXCEPT ![t].pc = "return"]
    /\ UNCHANGED <<heap, last, hist, nops, VERSION, COMMIT, BRANCH>>

\* the constructor returns the decorated error to the thread
ThreadReturn(t) ==
    LET c == threads[t].call
    IN  /\ threads[t].pc = "return"
        /\ last' = [c EXCEPT !.result = threads[t].err]
        /\ hist' = Append(hist, [op |-> c.op, e |-> c.e, m |-> c.m,
                                 under |-> threads[t].under, result |-> threads[t].err,
                                 thread |-> t, span |-> c.span])
        /\ nops' = nops + 1
        /\ threads' = [threads EXCEPT ![t] = Idle]
        /\ UNCHANGED <<heap, spans, VERSION, COMMIT, BRANCH>>

\* thread t calls SetSourceLocation(depth) on an error it holds; the threads
\* take turns to call the setters of one error, which the package leaves to them
ThreadSetSourceLocation(t) ==
    /\ threads[t].pc = "idle"
    /\ nops + Cardinality(Active) < MaxOps
    /\ \E e \in HeldErrors, depth \in ThreadDepths :
          /\ heap' = [heap EXCEPT ![e].sourceLocation =
                          NewSourceLocation(depth, Callers("SetSourceLocation",
                                                           ThreadStacks[t]))]
          /\ last' = [NoCall EXCEPT !.op = "SetSourceLocation", !.depth = depth,
                                    !.e = e, !.stack = ThreadStacks[t], !.result = e]
    /\ nops' = nops + 1
    /\ UNCHANGED <<spans, hist, threads, VERSION, COMMIT, BRANCH>>

\* thread t calls SetTraceContext(sc) on an error it holds
ThreadSetTraceContext(t) ==
    /\ threads[t].pc = "idle"
    /\ nops + Cardinality(Active) < MaxOps
    /\ \E e \in HeldErrors, sc \in SetterContexts :
          /\ heap' = [heap EXCEPT ![e].traceContext =
                          [TraceID |-> HexString(sc.TraceID),
                           SpanID  |-> HexString(sc.SpanID)]]
          /\ last' = [NoCall EXCEPT !.op = "SetTraceContext", !.e = e, !.sc = sc,
                                    !.result = e]
    /\ nops' = nops + 1
    /\ UNCHANGED <<spans, hist, threads, VERSION, COMMIT, BRANCH>>

NextThreads ==
    \E t \in Threads :
        \/ ThreadCall(t)
        \/ ThreadUnderlying(t)
        \/ ThreadCaller(t)
        \/ ThreadStamps(t)
        \/ ThreadTraceContext(t)
        \/ ThreadSpanAnnotate(t)
        \/ ThreadSetStatus(t)
        \/ ThreadReturn(t)
        \/ ThreadSetSourceLocation(t)
        \/ ThreadSetTraceContext(t)

SpecThreads == Init /\ [][NextThreads]_vars

----------------------------------------------------------------------------
(* What the claims speak of *)

\* the last call was a wrapping constructor handed a non-nil error
WrappedSomething == last.op \in WrapOps \cup WrapfOps /\ last.e # NIL /\ last.result # NIL

\* the location stored in the error the last call returned or changed
LastLocation == heap[last.result].sourceLocation

Zeros(n) == [i \in 1..n |-> "0"]

RECURSIVE BuiltChain(_)
\* The chain of an error as the calls that built it say it is (hist), not as the
\* links stored in the heap say: a decorated error, then the error its constructor
\* built underneath, then the chain of the error it was told to wrap.
BuiltChain(id) ==
    LET made  == { c \in 1..Len(hist) : hist[c].result = id }
        under == { c \in 1..Len(hist) : hist[c].under = id }
        rest(c) == IF hist[c].op \in WrapOps \cup WrapfOps /\ hist[c].e # NIL
                   THEN BuiltChain(hist[c].e) ELSE <<>>
    IN  IF made # {} THEN LET c == CHOOSE x \in made : TRUE
                          IN  <<id, hist[c].under>> \o rest(c)
        ELSE IF under # {} THEN LET c == CHOOSE x \in under : TRUE
                                IN  <<id>> \o rest(c)
        ELSE <<id>>

Range(seq) == { seq[i] : i \in 1..Len(seq) }

----------------------------------------------------------------------------
(* C1 *)

\* C1 as stated: unwrapping the result of Wrap(e, p) once returns e itself.
C1_UnwrapOnceIsWrapped ==
    (last.op = "Wrap" /\ last.e # NIL) => Unwrap(heap, last.result) = last.e

\* C1, amended: unwrapping the result of Wrap(e, p) once returns the underlying
\* error that fmt.Errorf built, which is not e and has the message of the result;
\* unwrapping that one returns e itself.
C1_UnwrapTwiceIsWrapped ==
    (last.op = "Wrap" /\ last.e # NIL) =>
        LET u == Unwrap(heap, last.result) IN
        /\ u # NIL
        /\ u # last.e
        /\ heap[u].kind = "wrapError"
        /\ Error(heap, u) = Error(heap, last.result)
        /\ Unwrap(heap, u) = last.e

C1_Witness ==
    /\ last.op = "Wrap"
    /\ last.e # NIL
    /\ heap[last.e].kind = "errorContext"
    /\ Unwrap(heap, Unwrap(heap, last.result)) = last.e

----------------------------------------------------------------------------
(* C2 *)

\* C2: the message of an error made by any of the eight wrapping constructors
\* from a non-nil error e is the prefix (for the formatting ones, the rendered
\* prefix: "t %s" with "b" renders "t b"), then ": ", then the message of e.
C2_WrapMessage ==
    WrappedSomething =>
        /\ last.op \in WrapOps =>
              Error(heap, last.result) = last.m \o <<":", " ">> \o Error(heap, last.e)
        /\ last.op \in WrapfOps =>
              Error(heap, last.result)
                 = Sprintf(last.m, last.args) \o <<":", " ">> \o Error(heap, last.e)
        /\ (last.op \in WrapfOps /\ last.m = <<"t", " ", "%", "s">> /\ last.args = << <<"b">> >>) =>
              Error(heap, last.result) = <<"t", " ", "b", ":", " ">> \o Error(heap, last.e)

C2_Witness ==
    /\ last.op = "WrapCallerfT"
    /\ last.e # NIL
    /\ heap[last.e].kind = "errorContext"
    /\ Error(heap, last.result) = <<"t", " ", "b", ":", " ", "a">>

----------------------------------------------------------------------------
(* C3 *)

\* C3: a convenience constructor called from F stores the location of F: its
\* function, file and line, and neither the constructor nor NewSourceLocation.
C3_ConvenienceNamesCaller ==
    (last.op \in ConvenienceOps /\ last.result # NIL) =>
        /\ LastLocation.Function = last.stack[1].function
        /\ LastLocation.File = last.stack[1].file
        /\ LastLocation.Line = last.stack[1].line
        /\ LastLocation.Function # FuncName(last.op)
        /\ LastLocation.Function # FuncName("NewSourceLocation")

C3_Witness ==
    /\ last.op = "WrapfT"
    /\ last.span # NIL
    /\ LastLocation.Function = "github.com/bzon/errors_test.F"

----------------------------------------------------------------------------
(* C4 *)

\* C4: an explicit-depth constructor called with depth d from F, called by G,
\* stores the frame d levels up from NewSourceLocation: 0 is NewSourceLocation,
\* 1 the constructor, 2 is F, 3 is G (and past the end of the stack there is no
\* frame to name: the function name is empty).
C4_DepthNamesFrame ==
    (last.op \in CallerOps /\ last.result # NIL) =>
        /\ last.depth = 0 => LastLocation.Function = "github.com/bzon/errors.NewSourceLocation"
        /\ last.depth = 1 => LastLocation.Function = "github.com/bzon/errors." \o last.op
        /\ last.depth = 2 => LastLocation.Function = "github.com/bzon/errors_test.F"
        /\ last.depth = 3 => LastLocation.Function = "github.com/bzon/errors_test.G"
        /\ last.depth > 3 => LastLocation.Function = ""

C4_Witness ==
    /\ last.op = "WrapCallerfT"
    /\ last.depth = 3
    /\ LastLocation.Function = "github.com/bzon/errors_test.G"

----------------------------------------------------------------------------
(* C5 *)

\* C5 as stated: SetSourceLocation(1) stores the location of the function that
\* called SetSourceLocation.
C5_SetterNamesItsCaller ==
    (last.op = "SetSourceLocation" /\ last.depth = 1) =>
        LastLocation.Function = last.stack[1].function

\* C5, amended: SetSourceLocation(1) overwrites the stored location with that of
\* the SetSourceLocation method itself, whatever the error was constructed with;
\* it takes SetSourceLocation(2) to store the location of the setter's caller.
C5_SetterNamesItself ==
    /\ (last.op = "SetSourceLocation" /\ last.depth = 1) =>
          LastLocation.Function = "github.com/bzon/errors.(*errorContext).SetSourceLocation"
    /\ (last.op = "SetSourceLocation" /\ last.depth = 2) =>
          LastLocation.Function = last.stack[1].function

C5_Witness ==
    /\ last.op = "SetSourceLocation"
    /\ last.depth = 1
    /\ \E c \in 1..Len(hist) : hist[c].result = last.e /\ hist[c].op = "New"
    /\ LastLocation.Function = "github.com/bzon/errors.(*errorContext).SetSourceLocation"

----------------------------------------------------------------------------
(* C6 *)

\* C6: for every error err and every sentinel of the heap, Is(err, sentinel) is
\* true exactly when the sentinel is one of the nodes of the chain that the
\* constructor calls built under err.
C6_IsFindsSentinel ==
    \A err \in 1..Len(heap) :
        LET chain == Range(BuiltChain(err))
        IN  \A sentinel \in 1..Len(heap) :
                Is(heap, err, sentinel) <=> sentinel \in chain

\* a sentinel from outside the package found under two levels of wrapping, and
\* the wrapping error, which is not in the sentinel's chain, not found in it
C6_Witness ==
    /\ last.op \in WrapOps
    /\ last.e # NIL
    /\ heap[last.e].kind = "errorString"
    /\ Len(BuiltChain(last.result)) = 3
    /\ Is(heap, last.result, last.e)
    /\ ~Is(heap, last.e, last.result)

----------------------------------------------------------------------------
(* C7 *)

\* the first node of a chain that can be stored in a variable of type T, or NIL
FirstAssignable(chain, T) ==
    LET hits == { i \in 1..Len(chain) : AssignableTo(heap[chain[i]].kind, T) }
    IN  IF hits = {} THEN NIL
        ELSE chain[CHOOSE i \in hits : \A j \in hits : i <= j]

\* C7: As(err, &dest) returns true and stores in dest the first node of err's
\* chain that dest's type admits if there is one; otherwise it returns false
\* and dest holds what it held.
C7_AsFindsFirst ==
    \A err \in 1..Len(heap) :
        LET chain == BuiltChain(err)
        IN  \A T \in AsTargets :
                LET first == FirstAssignable(chain, T)
                IN  \A dest \in {NIL, Len(heap)} :
                        LET r == As(heap, err, T, dest)
                        IN  IF first # NIL
                            THEN r.ok /\ r.dest = first
                            ELSE ~r.ok /\ r.dest = dest

\* ExampleAs: the custom error is found under the wrapped error, and an
\* ErrorTracer is not found under the custom error
C7_Witness ==
    /\ last.op = "Wrap"
    /\ last.e # NIL
    /\ heap[last.e].kind = "customError"
    /\ As(heap, last.result, "*customError", NIL) = [ok |-> TRUE, dest |-> last.e]
    /\ As(heap, last.e, "ErrorTracer", last.result) = [ok |-> FALSE, dest |-> last.result]

----------------------------------------------------------------------------
(* C8 *)

\* the identifiers of the two spans, as their 32 and 16 hex digits
SpanHex ==
    [s \in SpanIds |->
        IF s = 1
        THEN [TraceID |-> <<"d","2","d","2","b","1","2","6">> \o Zeros(24),
              SpanID  |-> <<"1","6","4","4","b","4">> \o Zeros(10)]
        ELSE [TraceID |-> <<"e","9","7","4","9","9">> \o Zeros(26),
              SpanID  |-> <<"1","e","b","9">> \o Zeros(12)]]

\* C8: the error returned by a trace-annotated constructor called with a span
\* has that span's trace and span identifiers, both non-empty; called with a nil
\* span it has both empty.
C8_TraceContextFromSpan ==
    (last.op \in TraceOps /\ last.result # NIL) =>
        LET tc == heap[last.result].traceContext IN
        IF last.span # NIL
        THEN /\ tc.TraceID # <<>>
             /\ tc.SpanID # <<>>
             /\ tc.TraceID = SpanHex[last.span].TraceID
             /\ tc.SpanID = SpanHex[last.span].SpanID
        ELSE tc.TraceID = <<>> /\ tc.SpanID = <<>>

C8_Witness ==
    /\ last.op = "WrapCallerT"
    /\ last.span = 2
    /\ heap[last.result].traceContext.SpanID = <<"1","e","b","9">> \o Zeros(12)
    /\ \E id \in Decorated(heap) : heap[id].traceContext = EmptyTraceContext

----------------------------------------------------------------------------
(* C9 *)

\* the annotation that the claim says the error err leaves on its span
ClaimedAnnotation(h, err) ==
    LET src == h[err].sourceLocation IN
    [call |-> "Annotate",
     attributes |->
        << [key |-> "function", value |-> src.Function],
           [key |-> "file",     value |-> src.File],
           [key |-> "line",     value |-> src.Line],
           [key |-> "version",  value |-> src.Version],
           [key |-> "commit",   value |-> src.Commit],
           [key |-> "branch",   value |-> src.Branch] >>,
     str |-> <<"E","r","r","o","r",":"," ">> \o Error(h, err)]

----------------------------------------------------------------------------
(* C10 *)

\* C10: every constructor returns: it does not fail, and the decorated error it
\* returns has a non-nil underlying error, so that Error() on it gives a message.
C10_ConstructorsTotal ==
    last.op \in ConstructorOps =>
        /\ ~last.panicked
        /\ last.result # NIL
        /\ heap[last.result].kind = "errorContext"
        /\ heap[last.result].err # NIL
        /\ Error(heap, last.result) # PANIC

----------------------------------------------------------------------------
(* C11 *)

SetterOps == {"SetSourceLocation", "SetTraceContext"}

\* C11: a decorated error's Unwrap() is the underlying error its constructor
\* built and the Error() of New(m) is m, in every state, whatever setters were
\* called since; and a setter call changes neither the Error() nor the
\* Unwrap() of any error, SetSourceLocation leaves the TraceContext as it was
\* and SetTraceContext leaves the SourceLocation as it was.
C11_SettersKeepError ==
    /\ [](\A c \in 1..Len(hist) :
            /\ Unwrap(heap, hist[c].result) = hist[c].under
            /\ hist[c].op = "New" => Error(heap, hist[c].result) = hist[c].m)
    /\ [][ last'.op \in SetterOps /\ nops' = nops + 1 =>
             /\ Len(heap') = Len(heap)
             /\ \A id \in 1..Len(heap) :
                    /\ Error(heap', id) = Error(heap, id)
                    /\ Unwrap(heap', id) = Unwrap(heap, id)
             /\ last'.op = "SetSourceLocation" =>
                    heap'[last'.e].traceContext = heap[last'.e].traceContext
             /\ last'.op = "SetTraceContext" =>
                    heap'[last'.e].sourceLocation = heap[last'.e].sourceLocation ]_vars

\* ExampleNew followed by ExampleTraceContext: New("a") still prints a after
\* SetTraceContext wrote the trace context, and its location is still F
C11_Witness ==
    /\ last.op = "SetTraceContext"
    /\ \E c \in 1..Len(hist) :
          /\ hist[c].result = last.e
          /\ hist[c].op = "New"
          /\ hist[c].m = <<"a">>
    /\ Error(heap, last.e) = <<"a">>
    /\ heap[last.e].traceContext # EmptyTraceContext
    /\ heap[last.e].sourceLocation.Function = UserF.function

----------------------------------------------------------------------------
(* C12 *)

NewOps == ConstructorOps \ (WrapOps \cup WrapfOps)

RECURSIVE LegacyInnermost(_)
\* The innermost error of the chain of a decorated error of errors.go, as the
\* calls that built it say (hist): the error a New or Errorf made underneath,
\* the innermost error of what a Wrap was told to wrap, and the decorated
\* error itself when it was told to wrap nil and so wraps nothing.
LegacyInnermost(id) ==
    LET c == CHOOSE x \in 1..Len(hist) : hist[x].result = id
    IN  IF hist[c].op \in NewOps THEN hist[c].under
        ELSE IF hist[c].e = NIL THEN id
        ELSE LegacyInnermost(hist[c].e)

\* C12: for every error e a constructor returned, Cause(e) is the innermost
\* error of e's chain, the one that wraps nothing further; and for
\* err = Wrap(New("a"), "b"), Cause(err) is an error whose message is "a".
C12_CauseInnermost ==
    /\ \A c \in 1..Len(hist) :
          hist[c].result # NIL =>
              /\ Cause(heap, hist[c].result) # NIL
              /\ Cause(heap, hist[c].result) = LegacyInnermost(hist[c].result)
    /\ \A c, d \in 1..Len(hist) :
          /\ hist[c].op = "New" /\ hist[c].m = <<"a">>
          /\ hist[d].op = "Wrap" /\ hist[d].m = <<"b">> /\ hist[d].e = hist[c].result
          /\ hist[d].e # NIL
          => Error(heap, Cause(heap, hist[d].result)) = <<"a">>

----------------------------------------------------------------------------
(* C13 *)

\* C13: in every state the TraceContext of every decorated error has both its
\* TraceID and its SpanID empty, or both non-empty.
C13_TraceContextAllOrNothing ==
    \A id \in Decorated(heap) :
        LET tc == heap[id].traceContext
        IN  \/ tc.TraceID = <<>> /\ tc.SpanID = <<>>
            \/ tc.TraceID # <<>> /\ tc.SpanID # <<>>

\* SetTraceContext handed a span context with a trace id and a zero span id:
\* the span id is stored as sixteen zeros, not as the empty string
C13_Witness ==
    /\ last.op = "SetTraceContext"
    /\ last.sc.TraceID[1] # 0
    /\ \A i \in 1..SpanIDLen : last.sc.SpanID[i] = 0
    /\ heap[last.e].traceContext.TraceID = <<"6", "1">> \o Zeros(30)
    /\ heap[last.e].traceContext.SpanID = Zeros(16)

----------------------------------------------------------------------------
(* C14 *)

\* the message, location and trace context of the decorated error at id in h
Carried(h, id) ==
    [message |-> Error(h, id), location |-> h[id].sourceLocation,
     trace |-> h[id].traceContext]

\* C14: with the calls of the threads interleaved statement by statement,
\* (1) the error a constructor returns names the caller on the stack of its own
\* thread, has the identifiers of the span it was handed, or none for a nil
\* span, and the build stamps; (2) no step writes VERSION, COMMIT or BRANCH;
\* (3) a step changes the message, location or trace context of no decorated
\* error but the one it is a step of: the error annotate was handed, or the
\* receiver of the setter.
C14_ThreadsIndependent ==
    /\ [][ Len(hist') > Len(hist) =>
             LET c  == hist'[Len(hist')]
                 fr == ThreadStacks[c.thread][1]
             IN  /\ heap'[c.result].sourceLocation =
                        [Function |-> fr.function, File |-> fr.file, Line |-> fr.line,
                         Version |-> VERSION, Commit |-> COMMIT, Branch |-> BRANCH]
                 /\ heap'[c.result].traceContext =
                        IF c.span = NIL THEN EmptyTraceContext ELSE SpanHex[c.span] ]_vars
    /\ [][ VERSION' = VERSION /\ COMMIT' = COMMIT /\ BRANCH' = BRANCH ]_vars
    /\ [][ \A id \in Decorated(heap) :
             Carried(heap', id) # Carried(heap, id) =>
                 \/ \E t \in Threads : /\ threads[t].pc = "traceContext"
                                       /\ threads'[t].pc = "spanAnnotate"
                                       /\ threads[t].err = id
                 \/ /\ last'.op \in SetterOps
                    /\ nops' = nops + 1
                    /\ last'.e = id ]_vars

\* two constructor calls that overlapped, thread 2 having allocated between the
\* two allocations of thread 1, each on its own span, have returned; thread 2
\* wrapped nothing and its error names H, the error of thread 1 names F
C14_Witness ==
    \E c, d \in 1..Len(hist) :
        /\ hist[c].thread = 1 /\ hist[d].thread = 2
        /\ hist[c].span = 1 /\ hist[d].span = 2
        /\ hist[c].under < hist[d].under /\ hist[d].under < hist[c].result
        /\ heap[hist[c].result].sourceLocation.Function = UserF.function
        /\ heap[hist[d].result].sourceLocation.Function = UserH.function
        /\ heap[hist[c].result].traceContext = SpanHex[1]
        /\ heap[hist[d].result].traceContext = SpanHex[2]
        /\ heap[hist[d].result].sourceLocation.Version = VERSION

====
